---- MODULE Spec2Model ----
(***************************************************************************)
(* Phone forwarding table of sdziuda/ipp-phones: a forward trie            *)
(* (prefix -> target) and a reverse trie (target -> sources), as           *)
(* implemented by src/src/phone_forward.c, with the reverse query of       *)
(* src/src/node_utils.c (addAllFromReverseTree).                           *)
(*                                                                         *)
(* A C string is a sequence of character codes; the terminating NUL is     *)
(* implicit (charAt returns 0 past the end).  A trie node is identified    *)
(* by its path from the root, a sequence of encoded digits 0..11; a trie   *)
(* is a function from the paths of its allocated nodes to the node's       *)
(* `numbers` field.  The parent pointer of a node is the path without its  *)
(* last digit; next[d] is non-NULL iff the path extended by d is a node.   *)
(***************************************************************************)
EXTENDS Integers, Sequences, FiniteSets, TLC

VARIABLES
    root,         \* PhoneForward::root        (forward trie)
    reverseRoot,  \* PhoneForward::reverseRoot (reverse trie)
    crashed,      \* the process died on an invalid memory access / double free
    last,         \* the last public call: [op, ret, kind, num, changed]
    nOps,         \* number of public calls made so far
    nFails,       \* number of calls that hit an allocation failure so far
    walk,         \* a deleteIterative in progress: [pc, tree, start, current]
    vec,          \* a PhoneNumbers vector of its own, outside the tries
    vop           \* the last call on vec: [op, arg, ok]

vars == <<root, reverseRoot, crashed, last, nOps, nFails, walk, vec, vop>>

----------------------------------------------------------------------------
(* Bounds of the model. *)

MaxOps == 3       \* number of public calls in one run
MaxFails == 1     \* number of calls in one run that hit an allocation failure
MaxQueryLen == 3  \* longest number asked about
MaxRules == 2     \* phfwdAdd calls that build the table a deleteIterative runs on
MaxVecLen == 3    \* largest size of the vector that is used on its own
MaxSortLen == 3   \* largest size of a vector that is sorted
MaxStrLen == 2    \* longest string handed to checkNumbers on its own

----------------------------------------------------------------------------
(* Characters and strings (string_utils.c / the static copies of          *)
(* phone_forward.c).                                                      *)

NUMBER_OF_DIGITS == 12
DECIMAL_STAR_REPRESENTATION == 10
DECIMAL_HASH_REPRESENTATION == 11

\* ASCII codes of the characters used as inputs: '1', '*' are valid symbols,
\* 'a' is not.
Alphabet == {49, 42}
BadChar == {97}

\* a NULL char pointer
NullStr == <<-1>>

\* the element of a one-element set: { e(x) : x \in {v} } gives the value v a
\* name that e uses, and computes v once
Only(S) == CHOOSE x \in S : TRUE

\* the largest size_t, as the largest integer of the model
SIZE_MAX == 2147483647

charAt(s, i) == IF s # NullStr /\ i < Len(s) THEN s[i + 1] ELSE 0

isdigit(c) == c >= 48 /\ c <= 57

isValidDigit(c) == isdigit(c) \/ c = 42 \/ c = 35

RECURSIVE lengthFrom(_, _)
lengthFrom(num, len) ==
    IF isValidDigit(charAt(num, len)) THEN lengthFrom(num, len + 1) ELSE len

length(num) == lengthFrom(num, 0)

\* a faulty isNumber that takes the empty string for a number
isNumber_AcceptsEmpty(number) ==
    IF number = NullStr THEN FALSE
    ELSE charAt(number, length(number)) = 0

isNumber(number) ==
    IF number = NullStr THEN FALSE
    ELSE LET i == length(number)
         IN  ~(i = 0 \/ charAt(number, i) # 0)

RECURSIVE areEqualFrom(_, _, _)
areEqualFrom(num1, num2, i) ==
    IF isValidDigit(charAt(num1, i)) /\ isValidDigit(charAt(num2, i))
    THEN IF charAt(num1, i) # charAt(num2, i) THEN FALSE
         ELSE areEqualFrom(num1, num2, i + 1)
    ELSE charAt(num1, i) = 0 /\ charAt(num2, i) = 0

areEqual(num1, num2) == areEqualFrom(num1, num2, 0)

RECURSIVE isPrefixFrom(_, _, _)
isPrefixFrom(num, prefix, i) ==
    IF isValidDigit(charAt(num, i)) /\ isValidDigit(charAt(prefix, i))
    THEN IF charAt(num, i) # charAt(prefix, i) THEN FALSE
         ELSE isPrefixFrom(num, prefix, i + 1)
    ELSE charAt(prefix, i) = 0

isPrefix(num, prefix) == isPrefixFrom(num, prefix, 0)

\* first loop of checkNumbers: returns <<i, equal>>
RECURSIVE checkCommon(_, _, _, _)
checkCommon(num1, num2, i, equal) ==
    IF isValidDigit(charAt(num1, i)) /\ isValidDigit(charAt(num2, i))
    THEN checkCommon(num1, num2, i + 1,
                     equal /\ charAt(num1, i) = charAt(num2, i))
    ELSE <<i, equal>>

\* a faulty checkNumbers that does not look at the flag equal
checkNumbers_AcceptsEqual(num1, num2) ==
    IF num1 = NullStr \/ num2 = NullStr THEN FALSE
    ELSE LET c  == checkCommon(num1, num2, 0, TRUE)
             i0 == c[1]
         IN  /\ i0 # 0
             /\ charAt(num1, lengthFrom(num1, i0)) = 0
             /\ charAt(num2, lengthFrom(num2, i0)) = 0

checkNumbers(num1, num2) ==
    IF num1 = NullStr \/ num2 = NullStr THEN FALSE
    ELSE LET c     == checkCommon(num1, num2, 0, TRUE)
             i0    == c[1]
             i     == lengthFrom(num1, i0)
             j     == lengthFrom(num2, i0)
             equal == c[2] /\ i = i0 /\ j = i0
         IN  IF i0 = 0 THEN FALSE
             ELSE IF charAt(num1, i) # 0 THEN FALSE
             ELSE IF charAt(num2, j) # 0 THEN FALSE
             ELSE ~equal

\* a faulty toDecimalRepresentation that takes '*' and '#' by their character
\* codes
toDecimalRepresentation_CharCode(c) == c - 48

toDecimalRepresentation(c) ==
    IF c = 42 THEN DECIMAL_STAR_REPRESENTATION
    ELSE IF c = 35 THEN DECIMAL_HASH_REPRESENTATION
    ELSE c - 48

\* the characters of num from index `from` (0-based) to the end of its
\* run of valid digits
RECURSIVE digitsFrom(_, _)
digitsFrom(num, from) ==
    IF isValidDigit(charAt(num, from))
    THEN <<charAt(num, from)>> \o digitsFrom(num, from + 1)
    ELSE <<>>

\* a faulty copyNumber that copies one character less than the number has
copyNumber_DropsLast(num) ==
    SubSeq(digitsFrom(num, 0), 1, Len(digitsFrom(num, 0)) - 1)

copyNumber(num) == digitsFrom(num, 0)

copyParts(num, newPrefix, lenOfOriginalPrefix) ==
    digitsFrom(newPrefix, 0) \o digitsFrom(num, lenOfOriginalPrefix)

----------------------------------------------------------------------------
(* PhoneNumbers vectors (struct PhoneNumbers, phone_forward.c:73-77).      *)
(* `array` holds the first `size` slots of the C array; a slot is          *)
(* [st |-> "ok", s |-> string] or, when its pointer is dangling (the       *)
(* string was freed) or never written, [st |-> "invalid", s |-> old].      *)
(* arrNull says that the C array pointer is NULL.                          *)

NullList == [null |-> TRUE, arrNull |-> TRUE, array |-> <<>>, size |-> 0, capacity |-> 0]

Slot(s) == [st |-> "ok", s |-> s]

\* a slot whose string (formerly s) was freed
InvalidSlot(s) == [st |-> "invalid", s |-> s]

phnumNew == [null |-> FALSE, arrNull |-> TRUE, array |-> <<>>, size |-> 0, capacity |-> 1]

\* whether phnumAdd asks the allocator for memory
phnumAddAllocates(pNumbers) == pNumbers.size + 1 = pNumbers.capacity

\* phnumAdd of phone_forward.c; allocOK: whether realloc (if called) succeeds.
\* Result: [ok, list, crashed].
phnumAdd(pNumbers, number, allocOK) ==
    LET size1 == pNumbers.size + 1
    IN  IF size1 = pNumbers.capacity
        THEN IF ~allocOK
             THEN \* array = realloc(...) = NULL; size--
                  [ok |-> FALSE, crashed |-> FALSE,
                   list |-> [pNumbers EXCEPT !.capacity = 2 * pNumbers.capacity,
                                             !.arrNull = TRUE, !.array = <<>>]]
             ELSE LET old == IF pNumbers.arrNull
                             THEN [k \in 1..pNumbers.size |-> InvalidSlot(<<>>)]
                             ELSE pNumbers.array
                  IN  [ok |-> TRUE, crashed |-> FALSE,
                       list |-> [pNumbers EXCEPT !.capacity = 2 * pNumbers.capacity,
                                                 !.arrNull = FALSE, !.size = size1,
                                                 !.array = Append(old, Slot(number))]]
        ELSE IF pNumbers.arrNull
             THEN \* array[size - 1] with array == NULL
                  [ok |-> FALSE, crashed |-> TRUE,
                   list |-> [pNumbers EXCEPT !.size = size1]]
             ELSE [ok |-> TRUE, crashed |-> FALSE,
                   list |-> [pNumbers EXCEPT !.size = size1,
                                             !.array = Append(pNumbers.array, Slot(number))]]

\* phnumDelete frees every string of the vector: freeing a dangling pointer
\* or reading array[i] of a NULL array is an invalid access
phnumDeleteCrashes(pn) ==
    /\ ~pn.null
    /\ \/ pn.arrNull /\ pn.size > 0
       \/ \E k \in 1..Len(pn.array) : pn.array[k].st # "ok"

\* first loop of the static phnumRemove (phone_forward.c:558-563); ubEq is
\* what comparing a freed string gives.  Result: [array, size, i, crashed].
RECURSIVE phnumRemoveLoop(_, _, _, _, _)
phnumRemoveLoop(array, size, i, num, ubEq) ==
    IF ~(i < size) THEN [array |-> array, size |-> size, i |-> i, crashed |-> FALSE]
    ELSE IF i >= Len(array)
         THEN [array |-> array, size |-> size, i |-> i, crashed |-> TRUE]
    ELSE LET e == array[i + 1]
         IN  IF e.st = "ok"
             THEN IF areEqual(e.s, num)
                  THEN phnumRemoveLoop([array EXCEPT ![i + 1] = InvalidSlot(e.s)],
                                       size - 1, i + 1, num, ubEq)
                  ELSE phnumRemoveLoop(array, size, i + 1, num, ubEq)
             ELSE IF ubEq
                  THEN \* free() of a pointer that was already freed
                       [array |-> array, size |-> size, i |-> i, crashed |-> TRUE]
                  ELSE phnumRemoveLoop(array, size, i + 1, num, ubEq)

\* second loop of phnumRemove: array[j] = array[j + 1] for j = i .. size-1
RECURSIVE phnumShift(_, _, _)
phnumShift(array, j, size) ==
    IF ~(j < size) THEN array
    ELSE phnumShift([array EXCEPT ![j + 1] = array[j + 2]], j + 1, size)

\* the static phnumRemove of phone_forward.c.  Result: [list, crashed]
\* (list = NullList when the vector was deleted).
phnumRemove(pNumbers, num, ubEq) ==
    IF pNumbers.null THEN [list |-> pNumbers, crashed |-> TRUE]
    ELSE LET l == phnumRemoveLoop(pNumbers.array, pNumbers.size, 0, num, ubEq)
         IN  IF l.crashed THEN [list |-> pNumbers, crashed |-> TRUE]
             ELSE IF l.size = 0 THEN [list |-> NullList, crashed |-> FALSE]
             ELSE [list |-> [pNumbers EXCEPT
                                !.size = l.size,
                                !.array = SubSeq(phnumShift(l.array, l.i, l.size), 1, l.size)],
                   crashed |-> FALSE]

----------------------------------------------------------------------------
(* Trie nodes (struct Node, phone_forward.c:32-36).                        *)

\* a NULL node pointer
NoNode == <<-1>>

\* a faulty nodeNew whose node comes with a vector holding the number "1"
nodeNew_WithNumber(t, path) ==
    (path :> [null |-> FALSE, arrNull |-> FALSE, array |-> <<Slot(<<49>>)>>,
              size |-> 1, capacity |-> 2]) @@ t

\* nodeNew at the place `path`: numbers = NULL, no children
nodeNew(t, path) == (path :> NullList) @@ t

\* the trie without the node at `path` (free(node))
freeNode(t, path) == [p \in DOMAIN t \ {path} |-> t[p]]

\* the digits d with node->next[d] != NULL
children(t, node) ==
    {d \in 0..(NUMBER_OF_DIGITS - 1) : Append(node, d) \in DOMAIN t}

numberOfChildren(t, node) == Cardinality(children(t, node))

\* the first i with current->next[i] != NULL
firstChild(t, node) ==
    CHOOSE d \in children(t, node) : \A e \in children(t, node) : d <= e

parentOf(node) == SubSeq(node, 1, Len(node) - 1)

\* a faulty loop of deleteIterative in which the parent pointer of the start
\* node was not cleared: the walk goes on into the parent and stops at the
\* root of the trie, the only node without parent
RECURSIVE deleteLoop_IgnoresStart(_, _, _)
deleteLoop_IgnoresStart(t, start, current) ==
    IF children(t, current) # {}
    THEN Only({deleteLoop_IgnoresStart(t, start, child) :
                  child \in {Append(current, firstChild(t, current))}})
    ELSE IF current = <<>> THEN [t |-> t, crashed |-> FALSE]
         ELSE IF phnumDeleteCrashes(t[current])
              THEN [t |-> t, crashed |-> TRUE]
              ELSE Only({deleteLoop_IgnoresStart(rest, start, parent) :
                            rest \in {freeNode(t, current)},
                            parent \in {parentOf(current)}})

\* the while loop of deleteIterative; start is the node whose parent pointer
\* was set to NULL.  Result: [t, crashed].
RECURSIVE deleteLoop(_, _, _)
deleteLoop(t, start, current) ==
    IF children(t, current) # {}
    THEN Only({deleteLoop(t, start, child) :
                  child \in {Append(current, firstChild(t, current))}})
    ELSE IF phnumDeleteCrashes(t[current])
         THEN [t |-> t, crashed |-> TRUE]
         ELSE IF current = start
              THEN [t |-> freeNode(t, current), crashed |-> FALSE]
              ELSE Only({deleteLoop(rest, start, parent) :
                            rest \in {freeNode(t, current)},
                            parent \in {parentOf(current)}})

deleteIterative(t, node) ==
    IF node = NoNode THEN [t |-> t, crashed |-> FALSE]
    ELSE Only({deleteLoop(t0, n0, n0) : t0 \in {t}, n0 \in {node}})

\* a faulty round of the loop that frees a leaf and leaves parent->next[i]
\* pointing to it
deleteStep_KeepsLink(t, start, current) ==
    IF children(t, current) # {}
    THEN [t |-> t, current |-> Append(current, firstChild(t, current)),
          done |-> FALSE, crashed |-> FALSE]
    ELSE IF phnumDeleteCrashes(t[current])
    THEN [t |-> t, current |-> current, done |-> FALSE, crashed |-> TRUE]
    ELSE IF current = start
    THEN [t |-> freeNode(t, current), current |-> NoNode,
          done |-> TRUE, crashed |-> FALSE]
    ELSE [t |-> t, current |-> parentOf(current),
          done |-> FALSE, crashed |-> FALSE]

\* one round of the while loop of deleteIterative: go to the first child, or
\* free the leaf and go back to its parent, or free the start node and stop.
\* Result: [t, current, done, crashed].
deleteStep(t, start, current) ==
    IF children(t, current) # {}
    THEN [t |-> t, current |-> Append(current, firstChild(t, current)),
          done |-> FALSE, crashed |-> FALSE]
    ELSE IF phnumDeleteCrashes(t[current])
    THEN [t |-> t, current |-> current, done |-> FALSE, crashed |-> TRUE]
    ELSE IF current = start
    THEN [t |-> freeNode(t, current), current |-> NoNode,
          done |-> TRUE, crashed |-> FALSE]
    ELSE [t |-> freeNode(t, current), current |-> parentOf(current),
          done |-> FALSE, crashed |-> FALSE]

\* The allocator: the calls to malloc/realloc of one public call are counted
\* from 1; the call number failAt fails (0: none fails).
allocFails(c, failAt) == c + 1 = failAt

\* the loop of getEndNode.  Result: [ok, t, node, firstAdded, c].
\* a faulty loop of getEndNode that returns NULL on a failed nodeNew and
\* leaves the nodes it has created in the trie
RECURSIVE getEndNodeLoop_KeepsCreated(_, _, _, _, _, _, _)
getEndNodeLoop_KeepsCreated(t, num, i, result, firstAdded, c, failAt) ==
    IF ~isValidDigit(charAt(num, i))
    THEN [ok |-> TRUE, t |-> t, node |-> result, firstAdded |-> firstAdded, c |-> c]
    ELSE LET digit == toDecimalRepresentation(charAt(num, i))
             next  == Append(result, digit)
         IN  IF next \notin DOMAIN t
             THEN IF allocFails(c, failAt)
                  THEN [ok |-> FALSE, t |-> t,
                        node |-> NoNode, firstAdded |-> firstAdded, c |-> c + 1]
                  ELSE Only({getEndNodeLoop_KeepsCreated(grown, num, i + 1, next, first,
                                                         c + 1, failAt) :
                                grown \in {nodeNew(t, next)},
                                first \in {IF firstAdded = NoNode THEN next
                                           ELSE firstAdded}})
             ELSE getEndNodeLoop_KeepsCreated(t, num, i + 1, next, firstAdded, c, failAt)

RECURSIVE getEndNodeLoop(_, _, _, _, _, _, _)
getEndNodeLoop(t, num, i, result, firstAdded, c, failAt) ==
    IF ~isValidDigit(charAt(num, i))
    THEN [ok |-> TRUE, t |-> t, node |-> result, firstAdded |-> firstAdded, c |-> c]
    ELSE LET digit == toDecimalRepresentation(charAt(num, i))
             next  == Append(result, digit)
         IN  IF next \notin DOMAIN t
             THEN IF allocFails(c, failAt)
                  THEN [ok |-> FALSE, t |-> deleteIterative(t, firstAdded).t,
                        node |-> NoNode, firstAdded |-> firstAdded, c |-> c + 1]
                  ELSE Only({getEndNodeLoop(grown, num, i + 1, next, first, c + 1, failAt) :
                                grown \in {nodeNew(t, next)},
                                first \in {IF firstAdded = NoNode THEN next
                                           ELSE firstAdded}})
             ELSE getEndNodeLoop(t, num, i + 1, next, firstAdded, c, failAt)

getEndNode(t, num, c, failAt) ==
    Only({getEndNodeLoop(t0, num, 0, <<>>, NoNode, c0, failAt) : t0 \in {t}, c0 \in {c}})

\* a faulty overWriteForwarding that adds the new target to the vector of
\* the old one
overWriteForwarding_Appends(t, node, firstAdded, num, c, failAt) ==
    LET numbers  == t[node]
        hasOld   == ~numbers.null /\ numbers.size > 0
        cCopy    == IF hasOld THEN c + 2 ELSE c + 1
        rollback == deleteIterative(t, firstAdded).t
        noNumber == deleteIterative([t EXCEPT ![node] = NullList], firstAdded).t
        added    == phnumAdd(IF hasOld THEN numbers ELSE phnumNew, copyNumber(num),
                             ~allocFails(cCopy + 1, failAt))
        emptied  == deleteIterative([t EXCEPT ![node] = added.list], firstAdded).t
    IN  IF allocFails(c, failAt)
        THEN [ok |-> FALSE, t |-> rollback, overWritten |-> NullStr,
              c |-> c + 1, crashed |-> FALSE]
        ELSE IF hasOld /\ (numbers.arrNull \/ numbers.array[1].st # "ok")
        THEN [ok |-> FALSE, t |-> t, overWritten |-> NullStr,
              c |-> c + 1, crashed |-> TRUE]
        ELSE IF hasOld /\ allocFails(c + 1, failAt)
        THEN [ok |-> FALSE, t |-> rollback, overWritten |-> NullStr,
              c |-> c + 2, crashed |-> FALSE]
        ELSE IF phnumDeleteCrashes(numbers)
        THEN [ok |-> FALSE, t |-> t, overWritten |-> NullStr,
              c |-> cCopy, crashed |-> TRUE]
        ELSE IF allocFails(cCopy, failAt)
        THEN [ok |-> FALSE, t |-> noNumber, overWritten |-> NullStr,
              c |-> cCopy + 1, crashed |-> FALSE]
        ELSE IF ~added.ok
        THEN [ok |-> FALSE, t |-> emptied, overWritten |-> NullStr,
              c |-> cCopy + 2, crashed |-> FALSE]
        ELSE [ok |-> TRUE, t |-> [t EXCEPT ![node] = added.list],
              overWritten |-> IF hasOld THEN copyNumber(numbers.array[1].s) ELSE NullStr,
              c |-> cCopy + 2, crashed |-> FALSE]

\* overWriteForwarding.  Result: [ok, t, overWritten, c, crashed].
overWriteForwarding(t, node, firstAdded, num, c, failAt) ==
    LET numbers  == t[node]
        hasOld   == ~numbers.null /\ numbers.size > 0
        cCopy    == IF hasOld THEN c + 2 ELSE c + 1
        rollback == deleteIterative(t, firstAdded).t
        noNumber == deleteIterative([t EXCEPT ![node] = NullList], firstAdded).t
        added    == phnumAdd(phnumNew, copyNumber(num), ~allocFails(cCopy + 1, failAt))
        emptied  == deleteIterative([t EXCEPT ![node] = added.list], firstAdded).t
    IN  IF allocFails(c, failAt)
        THEN [ok |-> FALSE, t |-> rollback, overWritten |-> NullStr,
              c |-> c + 1, crashed |-> FALSE]
        ELSE IF hasOld /\ (numbers.arrNull \/ numbers.array[1].st # "ok")
        THEN [ok |-> FALSE, t |-> t, overWritten |-> NullStr,
              c |-> c + 1, crashed |-> TRUE]
        ELSE IF hasOld /\ allocFails(c + 1, failAt)
        THEN [ok |-> FALSE, t |-> rollback, overWritten |-> NullStr,
              c |-> c + 2, crashed |-> FALSE]
        ELSE IF phnumDeleteCrashes(numbers)
        THEN [ok |-> FALSE, t |-> t, overWritten |-> NullStr,
              c |-> cCopy, crashed |-> TRUE]
        ELSE IF allocFails(cCopy, failAt)
        THEN [ok |-> FALSE, t |-> noNumber, overWritten |-> NullStr,
              c |-> cCopy + 1, crashed |-> FALSE]
        ELSE IF ~added.ok
        THEN [ok |-> FALSE, t |-> emptied, overWritten |-> NullStr,
              c |-> cCopy + 2, crashed |-> FALSE]
        ELSE [ok |-> TRUE, t |-> [t EXCEPT ![node] = added.list],
              overWritten |-> IF hasOld THEN copyNumber(numbers.array[1].s) ELSE NullStr,
              c |-> cCopy + 2, crashed |-> FALSE]

\* addReverse.  Result: [ok, t, c, crashed].
addReverse(t, node, firstAdded, num, c, failAt) ==
    LET numbers  == t[node]
        cNew     == IF numbers.null THEN c + 2 ELSE c + 1
        list     == IF numbers.null THEN phnumNew ELSE numbers
        cAdd     == IF phnumAddAllocates(list) THEN cNew + 1 ELSE cNew
        added    == phnumAdd(list, copyNumber(num), ~allocFails(cNew, failAt))
        withList == [t EXCEPT ![node] = added.list]
    IN  IF allocFails(c, failAt)
        THEN [ok |-> FALSE, t |-> deleteIterative(t, firstAdded).t,
              c |-> c + 1, crashed |-> FALSE]
        ELSE IF numbers.null /\ allocFails(c + 1, failAt)
        THEN [ok |-> FALSE, t |-> deleteIterative(t, firstAdded).t,
              c |-> c + 2, crashed |-> FALSE]
        ELSE IF added.crashed
        THEN [ok |-> FALSE, t |-> withList, c |-> cAdd, crashed |-> TRUE]
        ELSE IF ~added.ok
        THEN [ok |-> FALSE, t |-> deleteIterative(withList, firstAdded).t,
              c |-> cAdd, crashed |-> deleteIterative(withList, firstAdded).crashed]
        ELSE [ok |-> TRUE, t |-> withList, c |-> cAdd, crashed |-> FALSE]

\* the walk shared by removeReverse and phfwdRemove: follows num from the
\* root and tracks lastPointToRemove (beforePointToRemove is its parent and
\* pointToRemoveDigit its last digit).  Result: [found, node, last].
RECURSIVE removeWalk(_, _, _, _, _)
removeWalk(t, num, i, node, lastPointToRemove) ==
    IF ~isValidDigit(charAt(num, i))
    THEN [found |-> TRUE, node |-> node, last |-> lastPointToRemove]
    ELSE LET digit == toDecimalRepresentation(charAt(num, i))
             next  == Append(node, digit)
         IN  IF next \notin DOMAIN t
             THEN [found |-> FALSE, node |-> node, last |-> lastPointToRemove]
             ELSE removeWalk(t, num, i + 1, next,
                             IF \/ ~t[node].null
                                \/ numberOfChildren(t, node) > 1
                                \/ lastPointToRemove = NoNode
                             THEN next ELSE lastPointToRemove)

\* a faulty removeReverse that empties the vector and keeps the nodes
removeReverse_KeepsPath(t, num1, num2, ubEq) ==
    Only({IF ~w.found THEN [t |-> t, crashed |-> FALSE]
          ELSE Only({IF r.crashed THEN [t |-> t, crashed |-> TRUE]
                     ELSE [t |-> [t EXCEPT ![w.node] = r.list], crashed |-> FALSE] :
                       r \in {phnumRemove(t[w.node], num2, ubEq)}}) :
            w \in {removeWalk(t, num1, 0, <<>>, NoNode)}})

\* removeReverse.  Result: [t, crashed].
removeReverse(t, num1, num2, ubEq) ==
    Only({IF ~w.found THEN [t |-> t, crashed |-> FALSE]
          ELSE Only({IF r.crashed THEN [t |-> t, crashed |-> TRUE]
                     ELSE IF r.list.null
                          THEN deleteIterative([t EXCEPT ![w.node] = r.list], w.last)
                          ELSE [t |-> [t EXCEPT ![w.node] = r.list], crashed |-> FALSE] :
                       r \in {phnumRemove(t[w.node], num2, ubEq)}}) :
            w \in {removeWalk(t, num1, 0, <<>>, NoNode)}})

----------------------------------------------------------------------------
(* The public operations (phone_forward.c).                                *)

\* the result of phfwdAdd: what it returns, the two trees after it, whether
\* the process died in it, whether an allocation failed in it
AddResult(ret, fw, rv, died, noMem) ==
    [ret |-> ret, root |-> fw, reverseRoot |-> rv, crashed |-> died,
     allocFailed |-> noMem]

\* phfwdAdd from the second getEndNode on: g and o are the results of the
\* forward stage, r that of removeReverse.  On a failure the forward route is
\* undone: beforeFirstAdded->next[firstAddedDigit] = NULL;
\* deleteIterative(firstAdded).
phfwdAddReverse(g, o, r, num1, num2, failAt) ==
    Only({Only({IF ~g2.ok
                THEN AddResult(FALSE, deleteIterative(o.t, g.firstAdded).t, g2.t, FALSE, TRUE)
                ELSE IF a.crashed THEN AddResult(FALSE, o.t, a.t, TRUE, FALSE)
                ELSE IF ~a.ok
                THEN AddResult(FALSE, deleteIterative(o.t, g.firstAdded).t, a.t, FALSE, TRUE)
                ELSE AddResult(TRUE, o.t, a.t, FALSE, FALSE) :
                  a \in {IF g2.ok
                         THEN addReverse(g2.t, g2.node, g2.firstAdded, num1, g2.c, failAt)
                         ELSE [ok |-> FALSE, t |-> g2.t, c |-> g2.c, crashed |-> FALSE]}}) :
            g2 \in {getEndNode(r.t, num2, o.c, failAt)}})

\* phfwdAdd after the first getEndNode, whose result is g
phfwdAddForward(g, rv, num1, num2, failAt, ubEq) ==
    IF ~g.ok THEN AddResult(FALSE, g.t, rv, FALSE, TRUE)
    ELSE Only({IF o.crashed THEN AddResult(FALSE, o.t, rv, TRUE, FALSE)
               ELSE IF ~o.ok THEN AddResult(FALSE, o.t, rv, FALSE, TRUE)
               ELSE Only({IF r.crashed THEN AddResult(FALSE, o.t, r.t, TRUE, FALSE)
                          ELSE phfwdAddReverse(g, o, r, num1, num2, failAt) :
                            r \in {IF o.overWritten # NullStr
                                   THEN removeReverse(rv, o.overWritten, num1, ubEq)
                                   ELSE [t |-> rv, crashed |-> FALSE]}}) :
                 o \in {overWriteForwarding(g.t, g.node, g.firstAdded, num2, g.c, failAt)}})

\* phfwdAdd.  Result: AddResult.
phfwdAdd(fw, rv, num1, num2, failAt, ubEq) ==
    IF ~checkNumbers(num1, num2) THEN AddResult(FALSE, fw, rv, FALSE, FALSE)
    ELSE Only({phfwdAddForward(g, rv, num1, num2, failAt, ubEq) :
                  g \in {getEndNode(fw, num1, 0, failAt)}})

\* a faulty phfwdRemove that deletes the vector of the node of num and keeps
\* the nodes below it
phfwdRemove_OnlyNode(fw, num) ==
    IF ~isNumber(num) THEN [t |-> fw, crashed |-> FALSE]
    ELSE LET w == removeWalk(fw, num, 0, <<>>, NoNode)
         IN  IF ~w.found THEN [t |-> fw, crashed |-> FALSE]
             ELSE [t |-> [fw EXCEPT ![w.node] = NullList], crashed |-> FALSE]

\* a faulty phfwdRemove whose point to remove stays at the first node of the
\* walk
phfwdRemove_FromFirstDigit(fw, num) ==
    IF ~isNumber(num) THEN [t |-> fw, crashed |-> FALSE]
    ELSE LET w == removeWalk(fw, num, 0, <<>>, NoNode)
         IN  IF ~w.found THEN [t |-> fw, crashed |-> FALSE]
             ELSE deleteIterative(fw, SubSeq(w.node, 1, 1))

\* a faulty phfwdRemove that leaves the walk at a missing child with a break
\* and deletes what it has marked so far
phfwdRemove_BreakOnMissing(fw, num) ==
    IF ~isNumber(num) THEN [t |-> fw, crashed |-> FALSE]
    ELSE LET w == removeWalk(fw, num, 0, <<>>, NoNode)
         IN  IF w.last = NoNode THEN [t |-> fw, crashed |-> FALSE]
             ELSE deleteIterative(fw, w.last)

\* phfwdRemove.  Result: [t, crashed].
phfwdRemove(fw, num) ==
    IF ~isNumber(num) THEN [t |-> fw, crashed |-> FALSE]
    ELSE Only({IF ~w.found THEN [t |-> fw, crashed |-> FALSE]
               ELSE deleteIterative(fw, w.last) :
                 w \in {removeWalk(fw, num, 0, <<>>, NoNode)}})

\* a faulty findPrefix that stops at the first node with a forwarding
findPrefix_FirstMatch(t, num) ==
    LET path(k) == [i \in 1..k |-> toDecimalRepresentation(num[i])]
        ks == {k \in 1..Len(num) :
                  /\ path(k) \in DOMAIN t
                  /\ ~t[path(k)].null /\ t[path(k)].size > 0}
        k1 == CHOOSE k \in ks : \A j \in ks : k <= j
    IN  IF ks = {} THEN <<NullStr, 0>> ELSE <<t[path(k1)].array[1].s, k1>>

\* the loop of findPrefix.  Result: <<maxForwardedPrefix, lenOfMaxOriginalPrefix>>.
RECURSIVE findPrefixLoop(_, _, _, _, _)
findPrefixLoop(t, num, i, node, best) ==
    IF ~isValidDigit(charAt(num, i)) THEN best
    ELSE LET next == Append(node, toDecimalRepresentation(charAt(num, i)))
         IN  IF next \notin DOMAIN t THEN best
             ELSE findPrefixLoop(t, num, i + 1, next,
                                 IF ~t[next].null /\ t[next].size > 0
                                 THEN <<t[next].array[1].s, i + 1>> ELSE best)

findPrefix(t, num) == findPrefixLoop(t, num, 0, <<>>, <<NullStr, 0>>)

\* phfwdGet with every allocation succeeding: the sequence of the result
phfwdGet(fw, num) ==
    IF ~isNumber(num) THEN <<>>
    ELSE LET f == findPrefix(fw, num)
         IN  IF f[1] = NullStr THEN <<copyNumber(num)>>
             ELSE <<copyParts(num, f[1], f[2])>>

----------------------------------------------------------------------------
(* The reverse query: addAllFromReverseTree (node_utils.c) and the result  *)
(* vector operations of phone_numbers.c, every allocation succeeding.      *)
(* A result is [ub, seq]: ub says that an invalid pointer was read, seq is *)
(* the sequence of strings of the result vector.                           *)

\* a faulty phnumAddAllCopiedParts that cuts the original number one
\* character early
phnumAddAllCopiedParts_OffByOne(from, originalNumber, prefixLength) ==
    [ub  |-> (from.arrNull /\ from.size > 0)
             \/ \E k \in 1..Len(from.array) : from.array[k].st # "ok",
     seq |-> [k \in 1..Len(from.array) |->
                 copyParts(originalNumber, from.array[k].s, prefixLength - 1)]]

\* phnumAddAllCopiedParts: the strings appended to the result for one node
phnumAddAllCopiedParts(from, originalNumber, prefixLength) ==
    [ub  |-> (from.arrNull /\ from.size > 0)
             \/ \E k \in 1..Len(from.array) : from.array[k].st # "ok",
     seq |-> [k \in 1..Len(from.array) |->
                 copyParts(originalNumber, from.array[k].s, prefixLength)]]

RECURSIVE addAllLoop(_, _, _, _, _)
addAllLoop(t, num, i, node, acc) ==
    IF ~isValidDigit(charAt(num, i)) THEN acc
    ELSE LET next == Append(node, toDecimalRepresentation(charAt(num, i)))
         IN  IF next \notin DOMAIN t THEN acc
             ELSE IF ~t[next].null
             THEN LET part == phnumAddAllCopiedParts(t[next], num, i + 1)
                  IN  addAllLoop(t, num, i + 1, next,
                                 [ub |-> acc.ub \/ part.ub, seq |-> acc.seq \o part.seq])
             ELSE addAllLoop(t, num, i + 1, next, acc)

addAllFromReverseTree(t, num) ==
    LET all == addAllLoop(t, num, 0, <<>>, [ub |-> FALSE, seq |-> <<>>])
    IN  [ub |-> all.ub, seq |-> Append(all.seq, copyNumber(num))]

\* comparePhoneNumbers on two strings: 1, -1 or 0
RECURSIVE compareFrom(_, _, _)
compareFrom(a, b, i) ==
    IF isValidDigit(charAt(a, i)) /\ isValidDigit(charAt(b, i))
    THEN LET n1 == toDecimalRepresentation(charAt(a, i))
             n2 == toDecimalRepresentation(charAt(b, i))
         IN  IF n1 > n2 THEN 1
             ELSE IF n1 < n2 THEN -1
             ELSE compareFrom(a, b, i + 1)
    ELSE IF isValidDigit(charAt(a, i)) THEN 1
    ELSE IF isValidDigit(charAt(b, i)) THEN -1
    ELSE 0

comparePhoneNumbers(a, b) == compareFrom(a, b, 0)

\* sortPhoneNumbers: qsort with comparePhoneNumbers, as an insertion sort
RECURSIVE insertSorted(_, _)
insertSorted(seq, x) ==
    IF seq = <<>> THEN <<x>>
    ELSE IF comparePhoneNumbers(x, Head(seq)) <= 0 THEN <<x>> \o seq
    ELSE <<Head(seq)>> \o insertSorted(Tail(seq), x)

RECURSIVE sortPhoneNumbers(_)
sortPhoneNumbers(seq) ==
    IF seq = <<>> THEN <<>>
    ELSE insertSorted(sortPhoneNumbers(Tail(seq)), Head(seq))

\* phnumRemoveAtIndex (index counted from 0)
phnumRemoveAtIndex(seq, index) ==
    SubSeq(seq, 1, index) \o SubSeq(seq, index + 2, Len(seq))

\* size - 1 in size_t: 0 - 1 wraps to the largest value of the type, which
\* is larger than the length of any vector
sizeMinusOne(size) == IF size = 0 THEN SIZE_MAX ELSE size - 1

\* a faulty loop that moves to the next index after it removed an element
RECURSIVE removeDuplicatesLoop_Advances(_, _)
removeDuplicatesLoop_Advances(seq, i) ==
    IF ~(i < sizeMinusOne(Len(seq))) THEN [ub |-> FALSE, seq |-> seq]
    ELSE IF i + 1 >= Len(seq) THEN [ub |-> TRUE, seq |-> seq]
    ELSE IF areEqual(seq[i + 1], seq[i + 2])
         THEN removeDuplicatesLoop_Advances(phnumRemoveAtIndex(seq, i + 1), i + 1)
         ELSE removeDuplicatesLoop_Advances(seq, i + 1)

\* removeDuplicates; the loop bound size - 1 is a size_t.  Result: [ub, seq].
RECURSIVE removeDuplicatesLoop(_, _)
removeDuplicatesLoop(seq, i) ==
    IF ~(i < sizeMinusOne(Len(seq))) THEN [ub |-> FALSE, seq |-> seq]
    ELSE IF i + 1 >= Len(seq) THEN [ub |-> TRUE, seq |-> seq]
    ELSE IF areEqual(seq[i + 1], seq[i + 2])
         THEN removeDuplicatesLoop(phnumRemoveAtIndex(seq, i + 1), i)
         ELSE removeDuplicatesLoop(seq, i + 1)

\* a faulty removeDuplicates that leaves the vector as sorting left it
removeDuplicates_KeepAll(seq) == [ub |-> FALSE, seq |-> seq]

removeDuplicates(seq) == removeDuplicatesLoop(seq, 0)

\* phfwdReverse as the header documents it (phone_forward.h:75-88): the
\* candidates of addAllFromReverseTree, sorted, without duplicates
phfwdReverse(rv, num) ==
    IF ~isNumber(num) THEN [ub |-> FALSE, seq |-> <<>>]
    ELSE LET all == addAllFromReverseTree(rv, num)
             res == removeDuplicates(sortPhoneNumbers(all.seq))
         IN  [ub |-> all.ub \/ res.ub, seq |-> res.seq]

\* the vector of a result: phnumNew, then phnumAdd of each string in turn
RECURSIVE resultVector(_, _)
resultVector(pn, seq) ==
    IF seq = <<>> THEN pn
    ELSE resultVector(phnumAdd(pn, Head(seq), TRUE).list, Tail(seq))

\* a faulty phnumGet that counts the elements from 1
phnumGet_CountsFromOne(pn, idx) ==
    IF pn.null \/ idx = 0 \/ idx > pn.size THEN NullStr
    ELSE pn.array[idx].s

\* phnumGet: the string at idx (counted from 0), NullStr for NULL
phnumGet(pn, idx) ==
    IF pn.null \/ idx >= pn.size THEN NullStr
    ELSE pn.array[idx + 1].s

----------------------------------------------------------------------------
(* The state machine: a table is created, then calls are made on it.       *)

RECURSIVE StringsOver(_, _)
StringsOver(chars, n) ==
    IF n = 0 THEN {<<>>}
    ELSE LET shorter == StringsOver(chars, n - 1)
         IN  shorter \cup {Append(s, c) : s \in shorter, c \in chars}

\* the valid numbers passed to phfwdAdd and phfwdRemove: '1', '*', "11",
\* "1*" and "*1" (two branches, and numbers that are prefixes of others)
Nums == StringsOver(Alphabet, 2) \ {<<>>, <<42, 42>>}

\* strings that are not numbers: NULL, the empty string, strings with a
\* character outside the alphabet
BadInputs == {NullStr, <<>>} \cup {Append(s, c) : s \in StringsOver(Alphabet, 1), c \in BadChar}

\* the numbers asked about
QueryNums == StringsOver(Alphabet, MaxQueryLen) \ {<<>>}

\* the allocation of a call that fails: a call on numbers of two digits
\* allocates at most 4 nodes, 4 strings and vectors and 2 arrays
AllocSites == 1..11

EmptyTrie == <<>> :> NullList

HasInvalid(t) ==
    \E p \in DOMAIN t : \E k \in 1..Len(t[p].array) : t[p].array[k].st # "ok"

\* the record of a call: the operation, what phfwdAdd returned, for
\* phfwdRemove what its argument was ("invalid": not a number, "absent": a
\* number whose node is missing, "present": a number whose node exists, and
\* then the number), and whether a trie differs from what it was before
Call(op, ret, kind, num, changed) ==
    [op |-> op, ret |-> ret, kind |-> kind, num |-> num, changed |-> changed]

\* phfwdNew
\* no deleteIterative is in progress
NoWalk == [pc |-> "idle", tree |-> "", start |-> NoNode, current |-> NoNode]

\* no call was made on vec
NoVop == [op |-> "", arg |-> NullStr, ok |-> TRUE]

Init ==
    /\ root = EmptyTrie
    /\ reverseRoot = EmptyTrie
    /\ crashed = FALSE
    /\ last = Call("New", TRUE, "", <<>>, FALSE)
    /\ nOps = 0
    /\ nFails = 0
    /\ walk = NoWalk
    /\ vec = NullList
    /\ vop = NoVop

CanCall == ~crashed /\ nOps < MaxOps

\* what comparing a freed string may give, when there is one
UbChoices == IF HasInvalid(reverseRoot) THEN BOOLEAN ELSE {FALSE}

Called(r) ==
    /\ root' = r.root
    /\ reverseRoot' = r.reverseRoot
    /\ crashed' = r.crashed
    /\ last' = Call("Add", r.ret, "", <<>>,
                     r.root # root \/ r.reverseRoot # reverseRoot)
    /\ nOps' = nOps + 1
    /\ UNCHANGED <<walk, vec, vop>>

\* phfwdAdd on two numbers, every allocation succeeding
Add ==
    /\ CanCall
    /\ \E num1 \in Nums, num2 \in Nums, ubEq \in UbChoices :
          \E r \in {phfwdAdd(root, reverseRoot, num1, num2, 0, ubEq)} : Called(r)
    /\ UNCHANGED nFails

\* phfwdAdd with a string that is not a number as one of its arguments
AddInvalid ==
    /\ CanCall
    /\ \E bad \in BadInputs, other \in {<<49>>, NullStr} :
          \E r \in {phfwdAdd(root, reverseRoot, bad, other, 0, FALSE),
                    phfwdAdd(root, reverseRoot, other, bad, 0, FALSE)} : Called(r)
    /\ UNCHANGED nFails

\* phfwdAdd in which the allocation number failAt fails
AddNoMem ==
    /\ CanCall
    /\ nFails < MaxFails
    /\ \E num1 \in Nums, num2 \in Nums, failAt \in AllocSites, ubEq \in UbChoices :
          \E r \in {phfwdAdd(root, reverseRoot, num1, num2, failAt, ubEq)} :
              /\ r.allocFailed
              /\ Called(r)
    /\ nFails' = nFails + 1

Remove ==
    /\ CanCall
    /\ \E num \in Nums \cup BadInputs :
          \E r \in {phfwdRemove(root, num)} :
              /\ root' = r.t
              /\ crashed' = r.crashed
              /\ last' = IF ~isNumber(num)
                         THEN Call("Remove", TRUE, "invalid", <<>>, r.t # root)
                         ELSE IF ~removeWalk(root, num, 0, <<>>, NoNode).found
                         THEN Call("Remove", TRUE, "absent", <<>>, r.t # root)
                         ELSE Call("Remove", TRUE, "present", num, r.t # root)
    /\ nOps' = nOps + 1
    /\ UNCHANGED <<reverseRoot, nFails, walk, vec, vop>>

Next == Add \/ AddInvalid \/ Remove

\* every allocation succeeds
Spec == Init /\ [][Next]_vars

\* the calls without the phfwdAdd calls that are refused for an argument
\* that is not a number: these never reach a trie
NextNumbers == Add \/ Remove

\* every allocation succeeds and every phfwdAdd gets two numbers
SpecNumbers == Init /\ [][NextNumbers]_vars

\* the same calls, for the properties of the nodes of the two tries
SpecTries == Init /\ [][NextNumbers]_vars

\* the same calls, for phfwdReverse set against phfwdGet
SpecReverse == Init /\ [][NextNumbers]_vars

NextNoMem == Add \/ AddInvalid \/ AddNoMem \/ Remove

----------------------------------------------------------------------------
(* A PhoneNumbers vector used on its own, through the functions of         *)
(* phone_numbers.c ("module") or through the static copies of              *)
(* phone_forward.c ("static").  Besides the fields of the struct, the      *)
(* state keeps slots, the number of elements of the block that array       *)
(* points to.                                                              *)

\* the numbers put into the vector: "9", "*", "#", "9*", "9#"
VecNums == {<<57>>, <<42>>, <<35>>, <<57, 42>>, <<57, 35>>}

Vec(impl, slots, l) ==
    [impl |-> impl, slots |-> slots, null |-> l.null, arrNull |-> l.arrNull,
     array |-> l.array, size |-> l.size, capacity |-> l.capacity]

\* the strings of the elements 0 .. size-1
Strings(l) == [k \in 1..Len(l.array) |-> l.array[k].s]

\* phnumAdd of phone_numbers.c.  Result: [ok, crashed, list]; crashed is
\* the store array[size - 1] through a NULL array or past the block.
phnumAddModule(pNumbers, number, allocOK) ==
    LET size1 == pNumbers.size + 1
    IN  IF size1 = pNumbers.capacity
        THEN IF ~allocOK
             THEN \* tmp == NULL: size--, the doubled capacity stays
                  [ok |-> FALSE, crashed |-> FALSE,
                   list |-> [pNumbers EXCEPT !.capacity = 2 * pNumbers.capacity]]
             ELSE [ok |-> TRUE, crashed |-> FALSE,
                   list |-> [pNumbers EXCEPT !.capacity = 2 * pNumbers.capacity,
                                             !.slots = 2 * pNumbers.capacity,
                                             !.arrNull = FALSE,
                                             !.size = size1,
                                             !.array = Append(pNumbers.array, Slot(number))]]
        ELSE IF pNumbers.arrNull \/ size1 > pNumbers.slots
             THEN [ok |-> FALSE, crashed |-> TRUE,
                   list |-> [pNumbers EXCEPT !.size = size1]]
             ELSE [ok |-> TRUE, crashed |-> FALSE,
                   list |-> [pNumbers EXCEPT !.size = size1,
                                             !.array = Append(pNumbers.array, Slot(number))]]

\* first loop of phnumRemove of phone_numbers.c: the index of the first
\* element equal to num, or size
RECURSIVE findEqual(_, _, _)
findEqual(array, i, num) ==
    IF ~(i < Len(array)) THEN i
    ELSE IF areEqual(array[i + 1].s, num) THEN i
    ELSE findEqual(array, i + 1, num)

\* phnumRemove of phone_numbers.c.  Result: the vector (null when deleted).
phnumRemoveModule(pNumbers, num) ==
    IF pNumbers.null THEN pNumbers
    ELSE LET i    == findEqual(pNumbers.array, 0, num)
             size == IF i < pNumbers.size THEN pNumbers.size - 1 ELSE pNumbers.size
         IN  IF size = 0 THEN Vec(pNumbers.impl, 0, NullList)
             ELSE IF i < pNumbers.size
             THEN [pNumbers EXCEPT
                      !.size = size,
                      !.array = SubSeq(phnumShift(pNumbers.array, i, size), 1, size)]
             ELSE pNumbers

\* a faulty loop that goes to the next index after a removal
RECURSIVE phnumRemoveWithPrefixLoop_SkipsSwapped(_, _, _, _)
phnumRemoveWithPrefixLoop_SkipsSwapped(array, size, i, prefix) ==
    IF ~(i < size) THEN SubSeq(array, 1, size)
    ELSE IF isPrefix(array[i + 1].s, prefix)
    THEN phnumRemoveWithPrefixLoop_SkipsSwapped(
             [array EXCEPT ![i + 1] = array[size]], size - 1, i + 1, prefix)
    ELSE phnumRemoveWithPrefixLoop_SkipsSwapped(array, size, i + 1, prefix)

\* the loop of phnumRemoveWithPrefix: the elements 0 .. size-1 it leaves
RECURSIVE phnumRemoveWithPrefixLoop(_, _, _, _)
phnumRemoveWithPrefixLoop(array, size, i, prefix) ==
    IF ~(i < size) THEN SubSeq(array, 1, size)
    ELSE IF isPrefix(array[i + 1].s, prefix)
    THEN phnumRemoveWithPrefixLoop(
             [array EXCEPT ![i + 1] = array[size]], size - 1, i, prefix)
    ELSE phnumRemoveWithPrefixLoop(array, size, i + 1, prefix)

\* phnumRemoveWithPrefix.  Result: the vector (null when deleted).
phnumRemoveWithPrefix(pNumbers, prefix) ==
    IF pNumbers.null THEN pNumbers
    ELSE LET rest == phnumRemoveWithPrefixLoop(pNumbers.array, pNumbers.size, 0, prefix)
         IN  IF rest = <<>> THEN Vec(pNumbers.impl, 0, NullList)
             ELSE [pNumbers EXCEPT !.size = Len(rest), !.array = rest]

\* phnumNew of either file
InitVector ==
    /\ root = EmptyTrie
    /\ reverseRoot = EmptyTrie
    /\ crashed = FALSE
    /\ last = Call("New", TRUE, "", <<>>, FALSE)
    /\ nOps = 0
    /\ nFails = 0
    /\ walk = NoWalk
    /\ vec \in {Vec(impl, 0, phnumNew) : impl \in {"module", "static"}}
    /\ vop = NoVop

VecCalled(op, arg, ok) ==
    /\ vop' = [op |-> op, arg |-> arg, ok |-> ok]
    /\ UNCHANGED <<root, reverseRoot, last, nOps, walk>>

\* the caller replaces a vector that was deleted
VecNew ==
    /\ ~crashed
    /\ vec.null
    /\ vec' = Vec(vec.impl, 0, phnumNew)
    /\ VecCalled("New", NullStr, TRUE)
    /\ UNCHANGED <<crashed, nFails>>

\* phnumAdd(vec, &number); realloc fails or not
VecAdd ==
    /\ ~crashed
    /\ ~vec.null
    /\ vec.size < MaxVecLen
    /\ \E number \in VecNums, allocOK \in BOOLEAN :
          /\ ~allocOK => nFails < MaxFails /\ vec.size + 1 = vec.capacity
          /\ \E r \in {IF vec.impl = "module"
                       THEN phnumAddModule(vec, number, allocOK)
                       ELSE phnumAdd(vec, number, allocOK)} :
                /\ vec' = Vec(vec.impl,
                              IF vec.impl = "module" THEN r.list.slots
                              ELSE IF r.list.arrNull THEN 0
                              ELSE r.list.capacity,
                              r.list)
                /\ crashed' = r.crashed
                /\ VecCalled("Add", number, r.ok)
          /\ nFails' = IF allocOK THEN nFails ELSE nFails + 1

\* phnumRemove(&vec, num)
VecRemove ==
    /\ ~crashed
    /\ ~vec.null
    /\ \E num \in VecNums :
          \/ /\ vec.impl = "module"
             /\ vec' = phnumRemoveModule(vec, num)
             /\ crashed' = FALSE
             /\ VecCalled("Remove", num, TRUE)
          \/ /\ vec.impl = "static"
             /\ \E ubEq \in (IF \E k \in 1..Len(vec.array) : vec.array[k].st # "ok"
                             THEN BOOLEAN ELSE {FALSE}) :
                   \E r \in {phnumRemove(vec, num, ubEq)} :
                       /\ vec' = Vec(vec.impl, IF r.list.null THEN 0 ELSE vec.slots, r.list)
                       /\ crashed' = r.crashed
                       /\ VecCalled("Remove", num, TRUE)
    /\ UNCHANGED nFails

\* phnumRemoveWithPrefix(&vec, prefix); phone_forward.c has no copy of it
VecRemoveWithPrefix ==
    /\ ~crashed
    /\ ~vec.null
    /\ vec.impl = "module"
    /\ \E prefix \in VecNums :
          /\ vec' = phnumRemoveWithPrefix(vec, prefix)
          /\ VecCalled("RemoveWithPrefix", prefix, TRUE)
    /\ UNCHANGED <<crashed, nFails>>

\* sortPhoneNumbers(vec)
VecSort ==
    /\ ~crashed
    /\ ~vec.null
    /\ vec.impl = "module"
    /\ \E sorted \in {sortPhoneNumbers(Strings(vec))} :
          vec' = [vec EXCEPT !.array = [k \in 1..Len(sorted) |-> Slot(sorted[k])]]
    /\ VecCalled("Sort", NullStr, TRUE)
    /\ UNCHANGED <<crashed, nFails>>

\* removeDuplicates(vec)
VecRemoveDuplicates ==
    /\ ~crashed
    /\ ~vec.null
    /\ vec.impl = "module"
    /\ \E r \in {removeDuplicates(Strings(vec))} :
          /\ vec' = [vec EXCEPT !.size = Len(r.seq),
                                !.array = [k \in 1..Len(r.seq) |-> Slot(r.seq[k])]]
          /\ crashed' = r.ub
    /\ VecCalled("RemoveDuplicates", NullStr, TRUE)
    /\ UNCHANGED nFails

NextVector ==
    VecNew \/ VecAdd \/ VecRemove \/ VecRemoveWithPrefix \/ VecSort \/ VecRemoveDuplicates

SpecVector == InitVector /\ [][NextVector]_vars

\* the strings handed to checkNumbers: NULL and the strings of at most
\* MaxStrLen characters out of '1', '*', '#' and the letter 'a'
StrInputs == {NullStr} \cup StringsOver({49, 42, 35, 97}, MaxStrLen)

\* two strings at hand, no call made yet
InitStrings ==
    /\ root = EmptyTrie
    /\ reverseRoot = EmptyTrie
    /\ crashed = FALSE
    /\ last = Call("New", TRUE, "", <<>>, FALSE)
    /\ nOps = 0
    /\ nFails = 0
    /\ walk = NoWalk
    /\ vec = NullList
    /\ \E num1 \in StrInputs, num2 \in StrInputs :
          vop = [op |-> "", arg |-> <<num1, num2>>, ok |-> TRUE]

\* checkNumbers(num1, num2) is called on the two strings; vop keeps the
\* result
CallCheckNumbers ==
    /\ vop.op = ""
    /\ vop' = [vop EXCEPT !.op = "checkNumbers",
                          !.ok = checkNumbers(vop.arg[1], vop.arg[2])]
    /\ UNCHANGED <<root, reverseRoot, crashed, last, nOps, nFails, walk, vec>>

NextStrings == CallCheckNumbers

\* calls of checkNumbers on any two strings
SpecStrings == InitStrings /\ [][NextStrings]_vars

\* the numbers of a vector that is sorted: one or two of '9', '*', '#'
SortNums == StringsOver({57, 42, 35}, 2) \ {<<>>}

\* the capacity of a vector after `size` calls of phnumAdd: doubled from 1
\* each time size reached it
RECURSIVE capacityAfter(_, _)
capacityAfter(size, capacity) ==
    IF size < capacity THEN capacity ELSE capacityAfter(size, 2 * capacity)

\* a vector of phone_numbers.c that phnumAdd calls have filled
InitSort ==
    /\ root = EmptyTrie
    /\ reverseRoot = EmptyTrie
    /\ crashed = FALSE
    /\ last = Call("New", TRUE, "", <<>>, FALSE)
    /\ nOps = 0
    /\ nFails = 0
    /\ walk = NoWalk
    /\ \E n \in 1..MaxSortLen :
          \E numbers \in [1..n -> SortNums] :
              vec = Vec("module", capacityAfter(n, 1),
                        [null |-> FALSE, arrNull |-> FALSE,
                         array |-> [k \in 1..n |-> Slot(numbers[k])],
                         size |-> n, capacity |-> capacityAfter(n, 1)])
    /\ vop = NoVop

NextSort == VecSort \/ VecRemoveDuplicates

\* sortPhoneNumbers and removeDuplicates on a filled vector
SpecSort == InitSort /\ [][NextSort]_vars

\* the tables that at most n calls of phfwdAdd build, every allocation
\* succeeding
RECURSIVE Tables(_)
Tables(n) ==
    IF n = 0 THEN {[root |-> EmptyTrie, reverseRoot |-> EmptyTrie]}
    ELSE Tables(n - 1) \cup
         {[root |-> r.root, reverseRoot |-> r.reverseRoot] :
             r \in {x \in {phfwdAdd(tb.root, tb.reverseRoot, a, b, 0, ubEq) :
                               tb \in Tables(n - 1), a \in Nums, b \in Nums,
                               ubEq \in BOOLEAN} : ~x.crashed}}

\* a table built by phfwdAdd calls, on which deleteIterative will run
InitDelete ==
    /\ \E tb \in Tables(MaxRules) :
          /\ root = tb.root
          /\ reverseRoot = tb.reverseRoot
    /\ crashed = FALSE
    /\ last = Call("New", TRUE, "", <<>>, FALSE)
    /\ nOps = 0
    /\ nFails = 0
    /\ walk = NoWalk
    /\ vec = NullList
    /\ vop = NoVop

\* the trie that the walk is in
WalkTree == IF walk.tree = "root" THEN root ELSE reverseRoot

\* deleteIterative(node) is called on a node of one of the tries:
\* current = node, current->parent = NULL
deleteEnter ==
    /\ walk.pc = "idle"
    /\ ~crashed
    /\ \E tree \in {"root", "reverseRoot"} :
          \E node \in DOMAIN (IF tree = "root" THEN root ELSE reverseRoot) \ {<<>>} :
              walk' = [pc |-> "loop", tree |-> tree, start |-> node, current |-> node]
    /\ UNCHANGED <<root, reverseRoot, crashed, last, nOps, nFails, vec, vop>>

\* one round of the loop of deleteIterative
deleteRound ==
    /\ walk.pc = "loop"
    /\ ~crashed
    /\ \E r \in {deleteStep(WalkTree, walk.start, walk.current)} :
          /\ root' = IF walk.tree = "root" THEN r.t ELSE root
          /\ reverseRoot' = IF walk.tree = "root" THEN reverseRoot ELSE r.t
          /\ crashed' = r.crashed
          /\ walk' = [walk EXCEPT !.pc = IF r.done THEN "done" ELSE "loop",
                                  !.current = r.current]
    /\ UNCHANGED <<last, nOps, nFails, vec, vop>>

NextDelete == deleteEnter \/ deleteRound

\* a deleteIterative that was called runs on: the loop takes its next round
SpecDelete == InitDelete /\ [][NextDelete]_vars /\ WF_vars(deleteRound)

\* at most MaxFails calls run out of memory
SpecNoMem == Init /\ [][NextNoMem]_vars

----------------------------------------------------------------------------
(* The rules of a table, read from the tries.                              *)

\* the node of a number: the digits of the number, from the root
PathOf(num) == [i \in 1..Len(num) |-> toDecimalRepresentation(num[i])]

SetOf(seq) == {seq[k] : k \in 1..Len(seq)}

IsPrefixOf(p, n) == Len(p) <= Len(n) /\ SubSeq(n, 1, Len(p)) = p

Suffix(n, k) == SubSeq(n, k + 1, Len(n))

\* the forward trie has a rule with source S
HasRule(t, S) ==
    /\ PathOf(S) \in DOMAIN t
    /\ ~t[PathOf(S)].null
    /\ t[PathOf(S)].size > 0
    /\ ~t[PathOf(S)].arrNull

TargetOf(t, S) == t[PathOf(S)].array[1].s

\* the forward node of P holds the payload {Q}
HoldsFwd(t, P, Q) ==
    HasRule(t, P) /\ t[PathOf(P)].size = 1 /\ t[PathOf(P)].array[1] = Slot(Q)

\* the reverse node of Q has a slot for P (live or dangling)
HoldsRev(t, Q, P) ==
    /\ PathOf(Q) \in DOMAIN t
    /\ \E k \in 1..Len(t[PathOf(Q)].array) : t[PathOf(Q)].array[k].s = P

\* the nodes of a trie and the strings they hold
TableView(t) ==
    [p \in DOMAIN t |-> [k \in 1..Len(t[p].array) |-> t[p].array[k]]]

\* the step is a call of phfwdAdd(num1, num2) in which every allocation
\* succeeds
IsAdd(num1, num2) ==
    /\ last'.op = "Add"
    /\ nOps' = nOps + 1
    /\ \E ubEq \in UbChoices :
          LET r == phfwdAdd(root, reverseRoot, num1, num2, 0, ubEq)
          IN  /\ root' = r.root
              /\ reverseRoot' = r.reverseRoot
              /\ crashed' = r.crashed
              /\ last'.ret = r.ret

\* a non-empty string of the characters 0-9, * and #
IsValidNumber(p) ==
    /\ p # NullStr
    /\ Len(p) > 0
    /\ \A i \in 1..Len(p) : p[i] \in (48..57) \cup {42, 35}

\* what a string is to phfwdRemove in the trie t
KindOf(t, p) ==
    IF ~IsValidNumber(p) THEN "invalid"
    ELSE IF PathOf(p) \notin DOMAIN t THEN "absent"
    ELSE "present"

\* the step is a call of phfwdRemove(num), or of phfwdRemove on a string that
\* is, as num is, not a number or a number whose node is missing
IsRemove(num) ==
    /\ last'.op = "Remove"
    /\ nOps' = nOps + 1
    /\ last'.kind = KindOf(root, num)
    /\ last'.kind = "present" => last'.num = num

----------------------------------------------------------------------------
(* C1: after any sequence of successful phfwdAdd and phfwdRemove calls,    *)
(* for all numbers P and Q the forward node of P holds the payload {Q}     *)
(* exactly when the reverse node of Q has P as an element.                 *)
C1_MirrorInvariant ==
    ~crashed =>
        \A P \in Nums, Q \in Nums :
            HoldsFwd(root, P, Q) <=> HoldsRev(reverseRoot, Q, P)

(* C2: when phfwdAdd returns false because an allocation failed, both      *)
(* tries are as they were before the call: the same nodes holding the same *)
(* strings, so that every phfwdGet answers as before.                      *)
C2_AddFailureLeavesTablesUnchanged ==
    [][(last'.op = "Add" /\ nFails' = nFails + 1 /\ ~last'.ret /\ ~crashed')
        => /\ TableView(root') = TableView(root)
           /\ TableView(reverseRoot') = TableView(reverseRoot)
           /\ \A n \in QueryNums : phfwdGet(root', n) = phfwdGet(root, n)]_vars

\* the lengths of the prefixes of n that are sources of rules
RulePrefixes(t, n) == {k \in 1..Len(n) : HasRule(t, SubSeq(n, 1, k))}

Longest(ks) == CHOOSE k \in ks : \A j \in ks : j <= k

(* C3: phfwdGet(n) is the one-element sequence [T + rest], where S -> T is *)
(* the rule with the longest source S that is a prefix of n and            *)
(* n = S + rest; it is [n] when no source of a rule is a prefix of n.  The *)
(* result is not rewritten a second time.                                  *)
C3_GetLongestPrefix ==
    ~crashed =>
        \A n \in QueryNums :
            LET ks == RulePrefixes(root, n)
            IN  phfwdGet(root, n) =
                    IF ks = {} THEN <<n>>
                    ELSE <<TargetOf(root, SubSeq(n, 1, Longest(ks)))
                             \o Suffix(n, Longest(ks))>>

\* two rules whose sources are prefixes of one number and whose targets
\* differ: the longer one decides, and its result is itself the source of a
\* rule that is not applied
C3_Witness ==
    /\ ~crashed
    /\ \E n \in QueryNums :
          /\ Cardinality(RulePrefixes(root, n)) = 2
          /\ Len(n) > Longest(RulePrefixes(root, n))
          /\ TargetOf(root, SubSeq(n, 1, 1)) # TargetOf(root, SubSeq(n, 1, 2))
          /\ phfwdGet(root, n) # <<n>>
          /\ RulePrefixes(root, phfwdGet(root, n)[1]) # {}

\* the set that phfwdReverse(n) is specified to hold
ReverseImage(t, n) ==
    {S \o Suffix(n, Len(TargetOf(t, S))) :
        S \in {S \in Nums : HasRule(t, S) /\ IsPrefixOf(TargetOf(t, S), n)}} \cup {n}

C5_RemoveDeletesPrefixed ==
    [][\A p \in Nums :
          (IsRemove(p) /\ ~crashed')
          => /\ \A S \in Nums : IsPrefixOf(p, S) => ~HasRule(root', S)
             /\ \A x \in QueryNums :
                   IsPrefixOf(p, x)
                   => LET ks == {k \in RulePrefixes(root, x) : k < Len(p)}
                      IN  phfwdGet(root', x) =
                              IF ks = {} THEN <<x>>
                              ELSE <<TargetOf(root, SubSeq(x, 1, Longest(ks)))
                                       \o Suffix(x, Longest(ks))>>]_vars

\* phfwdRemove of a one-digit prefix took rules away, and rules elsewhere
\* are left
C5_Witness ==
    /\ ~crashed
    /\ last.op = "Remove"
    /\ last.kind = "present"
    /\ last.changed
    /\ Len(last.num) = 1
    /\ \E S \in Nums : HasRule(root, S)

(* C6: phfwdRemove(p) keeps every rule S -> T with p not a prefix of S:    *)
(* the forward node of S still holds {T}, and the reverse node of T still  *)
(* has S when it had it before the call.                                   *)
C6_RemoveKeepsUnrelated ==
    [][\A p \in Nums \cup BadInputs :
          (IsRemove(p) /\ ~crashed')
          => \A S \in Nums, T \in Nums :
                (HoldsFwd(root, S, T) /\ (isNumber(p) => ~IsPrefixOf(p, S)))
                => /\ HoldsFwd(root', S, T)
                   /\ HoldsRev(reverseRoot, T, S) => HoldsRev(reverseRoot', T, S)]_vars

\* phfwdRemove took away a rule below a digit, and a rule with the same first
\* digit, of which the removed prefix is not a prefix, is still there with its
\* reverse entry
C6_Witness ==
    /\ ~crashed
    /\ last.op = "Remove"
    /\ last.kind = "present"
    /\ last.changed
    /\ \E S \in Nums :
          /\ S[1] = last.num[1]
          /\ ~IsPrefixOf(last.num, S)
          /\ HasRule(root, S)
          /\ HoldsRev(reverseRoot, TargetOf(root, S), S)

(* C7: phfwdRemove(p) changes neither trie when p is not a valid number or *)
(* when the walk along the digits of p reaches a child that is missing.    *)
C7_RemoveNoOp ==
    [][\A p \in Nums \cup BadInputs :
          (IsRemove(p) /\ KindOf(root, p) # "present")
          => root' = root /\ reverseRoot' = reverseRoot /\ ~crashed']_vars

\* phfwdRemove of a number whose node is missing, on a table with a rule:
\* the call changed nothing
C7_Witness ==
    /\ ~crashed
    /\ last.op = "Remove"
    /\ last.kind = "absent"
    /\ ~last.changed
    /\ \E S \in Nums : HasRule(root, S)

\* no slot of the vector of a node is a dangling pointer
NodeIsSound(t, Q) ==
    PathOf(Q) \in DOMAIN t
    => \A k \in 1..Len(t[PathOf(Q)].array) : t[PathOf(Q)].array[k].st = "ok"

(* C8: after phfwdAdd(a, b) and then phfwdAdd(a, c) with c # b, both       *)
(* successful, phfwdGet(a) is [c], the reverse node of b no longer holds a *)
(* and the reverse node of c holds a.                                      *)
C8_OverwriteUnmirrors ==
    [][(last'.op = "Add" /\ last'.ret /\ ~crashed')
        => \A a \in Nums, b \in Nums :
              IsAdd(a, b)
              => \A c \in Nums \ {a, b},
                    ubEq \in (IF HasInvalid(reverseRoot') THEN BOOLEAN ELSE {FALSE}) :
                    LET r2 == phfwdAdd(root', reverseRoot', a, c, 0, ubEq)
                    IN  /\ r2.ret
                        /\ ~r2.crashed
                        /\ phfwdGet(r2.root, a) = <<c>>
                        /\ ~HoldsRev(r2.reverseRoot, b, a)
                        /\ NodeIsSound(r2.reverseRoot, b)
                        /\ HoldsRev(r2.reverseRoot, c, a)]_vars

Governs(t, x, S, T) ==
    /\ RulePrefixes(t, x) # {}
    /\ Longest(RulePrefixes(t, x)) = Len(S)
    /\ IsPrefixOf(S, x)
    /\ TargetOf(t, S) = T

\* the entries of the reverse trie on the way of n: <<k, S>> for S held by the
\* node of the first k digits of n
ReverseEntries(t, n) ==
    UNION {LET p == PathOf(SubSeq(n, 1, k))
           IN  IF p \in DOMAIN t
               THEN {<<k, t[p].array[j].s>> : j \in 1..Len(t[p].array)}
               ELSE {} : k \in 1..Len(n)}

----------------------------------------------------------------------------
\* the place of a symbol in the order of the result: the digits, then '*',
\* then '#'
SymbolRank(c) == IF c = 42 THEN 10 ELSE IF c = 35 THEN 11 ELSE c - 48

\* a stands strictly before b: a is a proper prefix of b, or the first
\* symbol in which they differ is smaller in a
Before(a, b) ==
    \E i \in 1..Len(b) :
        /\ i <= Len(a) + 1
        /\ \A j \in 1..(i - 1) : a[j] = b[j]
        /\ (i = Len(a) + 1 \/ SymbolRank(a[i]) < SymbolRank(b[i]))

----------------------------------------------------------------------------
\* phfwdAdd(num1, num2) of the current table returns false and gives back
\* the two tries as they are
AddIsRefused(num1, num2, ubEq) ==
    \E r \in {phfwdAdd(root, reverseRoot, num1, num2, 0, ubEq)} :
        /\ ~r.ret
        /\ ~r.crashed
        /\ r.root = root
        /\ r.reverseRoot = reverseRoot

----------------------------------------------------------------------------
(* C13: in the new table and in every state after it, phfwdGet(n) = [n]    *)
(* for every valid n none of whose prefixes is the source of a rule that   *)
(* the forward trie still holds.                                           *)
C13_IdentityDefault ==
    ~crashed =>
        \A n \in QueryNums :
            (\A k \in 1..Len(n) : ~HasRule(root, SubSeq(n, 1, k)))
                => phfwdGet(root, n) = <<n>>

\* a rule was just removed, another one is still there, and a number that
\* the removed rule governed now has no rule, although the forward trie
\* still has a node on its path
C13_Witness ==
    /\ ~crashed
    /\ last.op = "Remove" /\ last.kind = "present"
    /\ \E S \in Nums : HasRule(root, S)
    /\ \E n \in QueryNums :
          /\ IsPrefixOf(last.num, n)
          /\ \A k \in 1..Len(n) : ~HasRule(root, SubSeq(n, 1, k))
          /\ PathOf(SubSeq(n, 1, 1)) \in DOMAIN root

----------------------------------------------------------------------------
(* C14: phnumGet(pn, idx) is the element number idx (from 0) of the result *)
(* when idx is smaller than its size, and NULL when idx is its size or     *)
(* more or when pn is NULL; for the result of every phfwdGet and           *)
(* phfwdReverse of every state.                                            *)
C14_PhnumGetBoundsChecked ==
    ~crashed =>
        /\ \A idx \in {0, 1, SIZE_MAX} : phnumGet(NullList, idx) = NullStr
        /\ \A n \in Nums \cup BadInputs :
              \A seq \in {phfwdGet(root, n), phfwdReverse(reverseRoot, n).seq} :
                  \E pn \in {resultVector(phnumNew, seq)} :
                      \A idx \in (0..(Len(seq) + 1)) \cup {SIZE_MAX} :
                          phnumGet(pn, idx) =
                              IF idx < Len(seq) THEN seq[idx + 1] ELSE NullStr

\* a result of three numbers or more, so the indices 0, 1 and 2 are inside
\* it and the next one is outside
C14_Witness ==
    /\ ~crashed
    /\ \E n \in Nums :
          \E seq \in {phfwdReverse(reverseRoot, n).seq} :
              /\ Len(seq) >= 3
              /\ phnumGet(resultVector(phnumNew, seq), 2) = seq[3]
              /\ phnumGet(resultVector(phnumNew, seq), Len(seq)) = NullStr

----------------------------------------------------------------------------
\* the reverse nodes that removeReverse(T, a) deletes from the trie t
Pruned(t, T, a, ubEq) == DOMAIN t \ DOMAIN removeReverse(t, T, a, ubEq).t

(* C15: in a phfwdAdd(a, b) that overwrites the rule a -> T, every reverse *)
(* node that removeReverse(T, a) deletes is the node of T or a node        *)
(* without payload, and each of its children lies on the path of T: no     *)
(* node that still holds a payload is deleted, and no branch off the path. *)
C15_ReversePruneIsSafe ==
    [][\A a \in Nums, b \in Nums :
          (IsAdd(a, b) /\ last'.ret /\ ~crashed' /\ HasRule(root, a))
              => \A ubEq \in UbChoices :
                    \A p \in Pruned(reverseRoot, TargetOf(root, a), a, ubEq) :
                        /\ p = PathOf(TargetOf(root, a)) \/ reverseRoot[p].null
                        /\ \A d \in children(reverseRoot, p) :
                              IsPrefixOf(Append(p, d), PathOf(TargetOf(root, a)))]_vars

----------------------------------------------------------------------------
\* every string of the reverse node q of the trie t has the prefix p
AllHavePrefix(t, q, p) ==
    \A k \in 1..Len(t[q].array) : IsPrefixOf(p, t[q].array[k].s)

(* C16: after phfwdRemove(p) no payload of the reverse trie holds a source *)
(* that has the prefix p, and a reverse node is deleted by the call only   *)
(* if all it held were such sources.                                       *)
C16_RemoveCleansReverse ==
    [][\A p \in Nums :
          (IsRemove(p) /\ ~crashed')
              => /\ \A q \in DOMAIN reverseRoot' :
                       \A k \in 1..Len(reverseRoot'[q].array) :
                           ~IsPrefixOf(p, reverseRoot'[q].array[k].s)
                 /\ \A q \in DOMAIN reverseRoot \ DOMAIN reverseRoot' :
                       AllHavePrefix(reverseRoot, q, p)]_vars

----------------------------------------------------------------------------
\* the step is a call of phfwdAdd(num1, num2) in which the allocation
\* number failAt fails
IsAddNoMem(num1, num2, failAt) ==
    /\ last'.op = "Add"
    /\ nOps' = nOps + 1
    /\ nFails' = nFails + 1
    /\ \E ubEq \in UbChoices :
          \E r \in {phfwdAdd(root, reverseRoot, num1, num2, failAt, ubEq)} :
              /\ r.allocFailed
              /\ root' = r.root
              /\ reverseRoot' = r.reverseRoot
              /\ crashed' = r.crashed
              /\ last'.ret = r.ret

\* the allocations of phfwdAdd(num1, ...) on the forward trie t that come
\* before the one of the new vector: the nodes of num1 that are missing,
\* the copy of the target, the copy of the old target if there is one
AllocsBeforeVector(t, num1) ==
    Cardinality({k \in 1..Len(num1) : PathOf(SubSeq(num1, 1, k)) \notin DOMAIN t})
        + (IF HasRule(t, num1) THEN 2 ELSE 1)

(* C17: when phfwdAdd(a, b) fails because the allocation of the new vector *)
(* of the forward node, or the one that appends b to it, fails, then after *)
(* the call the forward trie has the nodes it had before (the ones the     *)
(* call created are gone) and the node of a, if it was there, holds the    *)
(* payload it held.                                                        *)
C17_PayloadFailureKeepsForward ==
    [][\A a \in Nums, b \in Nums, failAt \in AllocSites :
          (/\ IsAddNoMem(a, b, failAt)
           /\ ~crashed'
           /\ failAt \in {AllocsBeforeVector(root, a) + 1,
                          AllocsBeforeVector(root, a) + 2})
              => /\ ~last'.ret
                 /\ DOMAIN root' = DOMAIN root
                 /\ PathOf(a) \in DOMAIN root
                       => TableView(root')[PathOf(a)] = TableView(root)[PathOf(a)]]_vars

----------------------------------------------------------------------------
(* C18: when phfwdAdd(a, b) fails because an allocation for the reverse    *)
(* path of b, or for appending a to the reverse node of b, fails, then     *)
(* after the call phfwdGet answers every number as before the call, and    *)
(* the reverse node of the older target of a, if it listed a, lists it     *)
(* still.                                                                  *)
C18_ReverseFailureUndoesForward ==
    [][\A a \in Nums, b \in Nums, failAt \in AllocSites :
          (/\ IsAddNoMem(a, b, failAt)
           /\ ~crashed'
           /\ failAt > AllocsBeforeVector(root, a) + 2)
              => /\ ~last'.ret
                 /\ \A n \in QueryNums : phfwdGet(root', n) = phfwdGet(root, n)
                 /\ (HasRule(root, a) /\ HoldsRev(reverseRoot, TargetOf(root, a), a))
                       => HoldsRev(reverseRoot', TargetOf(root, a), a)]_vars

----------------------------------------------------------------------------
(* C19: after a phfwdAdd(a, b) that failed because an allocation failed,   *)
(* whichever it was, the same phfwdAdd(a, b) with every allocation         *)
(* succeeding makes no invalid access, returns true and leaves the two     *)
(* tries as the first call would have left them had it succeeded.          *)
C19_RetryAfterNoMem ==
    [][\A a \in Nums, b \in Nums, failAt \in AllocSites :
          (/\ IsAddNoMem(a, b, failAt)
           /\ ~crashed'
           /\ ~HasInvalid(reverseRoot) /\ ~HasInvalid(reverseRoot'))
              => \E first \in {phfwdAdd(root, reverseRoot, a, b, 0, FALSE)},
                    retry \in {phfwdAdd(root', reverseRoot', a, b, 0, FALSE)} :
                     (first.ret /\ ~first.crashed)
                         => /\ ~retry.crashed
                            /\ retry.ret
                            /\ TableView(retry.root) = TableView(first.root)
                            /\ TableView(retry.reverseRoot) = TableView(first.reverseRoot)]_vars

----------------------------------------------------------------------------
\* the node p of the trie t holds a payload that is not empty
HasPayload(t, p) == ~t[p].null /\ t[p].size > 0

\* every node of the trie t but the root holds a payload or has a child
NoDeadWeight(t) ==
    \A p \in DOMAIN t \ {<<>>} : HasPayload(t, p) \/ children(t, p) # {}

(* C20: after any sequence of phfwdAdd and phfwdRemove calls in which no   *)
(* allocation fails, every node of the forward trie and of the reverse     *)
(* trie, the roots apart, holds a non-empty payload or has a child.        *)
C20_NoDeadWeightNodes ==
    ~crashed => NoDeadWeight(root) /\ NoDeadWeight(reverseRoot)

\* a phfwdRemove has just cut a branch off, and both tries still have an
\* interior node without payload above a node that holds one
C20_Witness ==
    /\ ~crashed
    /\ last.op = "Remove" /\ last.kind = "present"
    /\ \E p \in DOMAIN root \ {<<>>} : ~HasPayload(root, p)
    /\ \E p \in DOMAIN reverseRoot \ {<<>>} : ~HasPayload(reverseRoot, p)

----------------------------------------------------------------------------
(* C21: in every state and for both tries, a getEndNode(number) in which   *)
(* a nodeNew fails, whichever of its allocations it is, returns NULL and   *)
(* gives the trie back exactly as it was: the nodes the call created are   *)
(* gone and no other node is deleted or changed.                           *)
C21_GetEndNodeRollsBack ==
    ~crashed =>
        \A num \in Nums :
            \A failAt \in 1..Len(num), t \in {root, reverseRoot} :
                \E g \in {getEndNode(t, num, 0, failAt)} :
                    ~g.ok => g.t = t /\ g.node = NoNode

\* a trie with rules in which some number has none of its nodes, so that the
\* failure of the second nodeNew comes after a node was created
C21_Witness ==
    /\ ~crashed
    /\ \E S \in Nums : HasRule(root, S)
    /\ \E num \in Nums :
          /\ Len(num) = 2
          /\ PathOf(SubSeq(num, 1, 1)) \notin DOMAIN root
          /\ ~getEndNode(root, num, 0, 2).ok
          /\ getEndNode(root, num, 0, 0).ok
          /\ DOMAIN getEndNode(root, num, 0, 0).t # DOMAIN root

----------------------------------------------------------------------------
\* the node q lies in the subtree of the node p
InSubtree(p, q) == IsPrefixOf(p, q)

(* C22: in every state, for both tries and every node p but the root,      *)
(* deleteIterative(p) leaves every node outside the subtree of p in the    *)
(* trie with its payload as it was, and, when no payload of the subtree    *)
(* holds a freed string, leaves no node of the subtree: the trie after it  *)
(* is the trie before it without that subtree.                             *)
C22_DeleteStaysInSubtree ==
    ~crashed =>
        \A t \in {root, reverseRoot} :
            \A p \in DOMAIN t \ {<<>>} :
                \E r \in {deleteIterative(t, p)} :
                    /\ \A q \in DOMAIN t :
                          ~InSubtree(p, q) => q \in DOMAIN r.t /\ r.t[q] = t[q]
                    /\ DOMAIN r.t \subseteq DOMAIN t
                    /\ ~r.crashed => \A q \in DOMAIN r.t : ~InSubtree(p, q)

\* a node of the reverse trie with a child below it, and beside its subtree
\* a node that holds a payload
C22_Witness ==
    /\ ~crashed
    /\ \E p \in DOMAIN reverseRoot :
          /\ Len(p) = 1
          /\ children(reverseRoot, p) # {}
          /\ ~deleteIterative(reverseRoot, p).crashed
          /\ \E q \in DOMAIN reverseRoot :
                /\ q # <<>>
                /\ ~InSubtree(p, q)
                /\ ~reverseRoot[q].null

----------------------------------------------------------------------------
----------------------------------------------------------------------------
(* C24: after any calls of phfwdAdd and phfwdRemove every node of the      *)
(* forward trie holds no target or exactly one, and overwriting the target *)
(* of a number, as phfwdAdd does, leaves exactly the new one.              *)
Targets(t, p) == IF t[p].null \/ t[p].arrNull THEN <<>> ELSE t[p].array

C24_ForwardCardinality ==
    ~crashed =>
        /\ \A p \in DOMAIN root :
              /\ Len(Targets(root, p)) <= 1
              /\ root[p].size = Len(Targets(root, p))
        /\ \A num1 \in {S \in Nums : HasRule(root, S)}, num2 \in Nums :
              \E o \in {overWriteForwarding(root, PathOf(num1), NoNode, num2, 0, 0)} :
                  o.ok /\ ~o.crashed =>
                      Targets(o.t, PathOf(num1)) = <<Slot(num2)>>

\* a number has a target, and the overWriteForwarding of a phfwdAdd gives it
\* another one
C24_Witness ==
    /\ ~crashed
    /\ \E num1 \in Nums, num2 \in Nums :
          /\ HasRule(root, num1)
          /\ Targets(root, PathOf(num1)) # <<Slot(num2)>>
          /\ \E o \in {overWriteForwarding(root, PathOf(num1), NoNode, num2, 0, 0)} :
                /\ o.ok /\ ~o.crashed
                /\ Targets(o.t, PathOf(num1)) = <<Slot(num2)>>

----------------------------------------------------------------------------
(* C25: a phnumAdd that fails because realloc fails leaves the vector as   *)
(* it was: same size, same elements, same array and same capacity.         *)
C25_FailedAppendUnchanged ==
    [][vop'.op = "Add" /\ ~vop'.ok /\ ~crashed' => vec' = vec]_vars

(* C26: phnumAdd of phone_numbers.c never stores outside the block of the  *)
(* array: after every call on a vector that came from phnumNew the store   *)
(* was not an invalid access, size is at most the number of allocated      *)
(* elements, and the array is not NULL when the vector has elements.       *)
C26_AppendStaysInArray ==
    [][vec.impl = "module" /\ vop'.op = "Add" =>
          /\ ~crashed'
          /\ vec'.size <= vec'.slots
          /\ vec'.size > 0 => ~vec'.arrNull]_vars

(* C27: phnumRemove(&list, s), in phone_numbers.c and in the static copy   *)
(* of phone_forward.c, removes the first element equal to s and no other,  *)
(* keeps the other elements in their order, changes nothing when no        *)
(* element equals s, and deletes the list exactly when no element is left. *)

\* seq without its first element equal to s
RECURSIVE WithoutFirst(_, _)
WithoutFirst(seq, s) ==
    IF seq = <<>> THEN <<>>
    ELSE IF Head(seq) = s THEN Tail(seq)
    ELSE <<Head(seq)>> \o WithoutFirst(Tail(seq), s)

\* every element 0 .. size-1 is a live string
AllLive(l) ==
    /\ Len(l.array) = l.size
    /\ \A k \in 1..Len(l.array) : l.array[k].st = "ok"

C27_RemoveValueRemovesOne ==
    [][vop'.op = "Remove" /\ AllLive(vec) /\ vec.size > 0 =>
          /\ ~crashed'
          /\ vec'.null <=> WithoutFirst(Strings(vec), vop'.arg) = <<>>
          /\ ~vec'.null =>
                /\ AllLive(vec')
                /\ Strings(vec') = WithoutFirst(Strings(vec), vop'.arg)]_vars

(* C28: after phnumRemoveWithPrefix(&list, prefix) no element of the list  *)
(* starts with prefix, every number that does not start with prefix is in  *)
(* the list as many times as before, and the list is deleted (the owner's  *)
(* pointer is NULL) exactly when no element remains.                       *)

\* how many times s occurs in seq
Count(seq, s) == Cardinality({k \in 1..Len(seq) : seq[k] = s})

C28_RemoveWithPrefixExact ==
    ~crashed /\ vec.impl = "module" /\ ~vec.null =>
        \A prefix \in VecNums :
            \E r \in {phnumRemoveWithPrefix(vec, prefix)} :
                /\ \A k \in 1..Len(r.array) :
                      r.array[k].st = "ok" /\ ~IsPrefixOf(prefix, r.array[k].s)
                /\ \A s \in VecNums :
                      ~IsPrefixOf(prefix, s) => Count(Strings(r), s) = Count(Strings(vec), s)
                /\ r.size = Len(r.array)
                /\ r.null <=> \A k \in 1..Len(vec.array) : IsPrefixOf(prefix, vec.array[k].s)

\* the vector holds "9", "*", "9*": removing the prefix "9" frees element 0,
\* moves "9*" there, frees it too, and leaves "*"
C28_Witness ==
    /\ ~crashed
    /\ vec.impl = "module"
    /\ Strings(vec) = << <<57>>, <<42>>, <<57, 42>> >>
    /\ Strings(phnumRemoveWithPrefix(vec, <<57>>)) = << <<42>> >>

(* C29: comparePhoneNumbers is the lexicographic order of the numbers read *)
(* as sequences of the values 0 .. 11 of their symbols ('*' and '#' come   *)
(* after '9'): a proper prefix comes before its extensions, the result is  *)
(* 0 exactly for equal numbers, and the order is antisymmetric and         *)
(* transitive.  sortPhoneNumbers leaves the vector in that order.          *)

\* the numbers at hand in a state: the elements of the vector
AtHand == {vec.array[k].s : k \in 1..Len(vec.array)}

C29_CompareIsLexicographic ==
    ~crashed /\ ~vec.null =>
        /\ \A a \in AtHand, b \in AtHand :
              \E ab \in {comparePhoneNumbers(a, b)} :
                  /\ ab \in {-1, 0, 1}
                  /\ ab = 0 <=> a = b
                  /\ ab = -1 <=> Before(a, b)
                  /\ ab = 0 - comparePhoneNumbers(b, a)
                  /\ IsPrefixOf(a, b) /\ a # b => ab = -1
                  /\ \A c \in AtHand :
                        ab <= 0 /\ comparePhoneNumbers(b, c) <= 0
                            => comparePhoneNumbers(a, c) <= 0
        /\ vop.op = "Sort" =>
              \A k \in 1..(Len(vec.array) - 1) :
                  vec.array[k].s = vec.array[k + 1].s
                      \/ Before(vec.array[k].s, vec.array[k + 1].s)

\* sortPhoneNumbers has left "9" before its extension "9*" and both before
\* "*", whose character code is smaller than that of '9'
C29_Witness ==
    /\ ~crashed
    /\ vop.op = "Sort"
    /\ Strings(vec) = << <<57>>, <<57, 42>>, <<42>> >>
    /\ comparePhoneNumbers(<<57>>, <<42>>) = -1

(* C30: on a sorted vector that is not empty removeDuplicates leaves one   *)
(* copy of every number that was there, in the order they stood in, also   *)
(* when a number stood there three times or more in a row.                 *)

\* seq is in the order of the sort
InSortOrder(seq) ==
    \A k \in 1..(Len(seq) - 1) : seq[k] = seq[k + 1] \/ Before(seq[k], seq[k + 1])

\* the first occurrence of every element of seq, in the order of seq
RECURSIVE FirstOccurrences(_)
FirstOccurrences(seq) ==
    IF seq = <<>> THEN <<>>
    ELSE LET front == SubSeq(seq, 1, Len(seq) - 1)
             x     == seq[Len(seq)]
         IN  IF \E k \in 1..Len(front) : front[k] = x
             THEN FirstOccurrences(front)
             ELSE Append(FirstOccurrences(front), x)

C30_DedupKeepsOneOfEach ==
    ~crashed /\ ~vec.null /\ vec.size > 0 /\ InSortOrder(Strings(vec)) =>
        \E r \in {removeDuplicates(Strings(vec))} :
            /\ ~r.ub
            /\ r.seq = FirstOccurrences(Strings(vec))

\* sortPhoneNumbers has left a number three times in a row, and
\* removeDuplicates leaves one copy of it
C30_Witness ==
    /\ ~crashed
    /\ vop.op = "Sort"
    /\ \E a \in SortNums :
          /\ Strings(vec) = <<a, a, a>>
          /\ removeDuplicates(Strings(vec)).seq = <<a>>

----------------------------------------------------------------------------
(* C31: checkNumbers(a, b) is true exactly when isNumber(a), isNumber(b)   *)
(* and a differs from b, for all strings a and b, the empty string and     *)
(* strings with other characters included; and isNumber(s) is true exactly *)
(* when s is not empty and has only the 12 symbols of a number.            *)

\* s is not NULL, not empty, and every character is a digit, '*' or '#'
IsNumberByDefinition(s) ==
    /\ s # NullStr
    /\ s # <<>>
    /\ \A k \in 1..Len(s) : s[k] \in (48..57) \cup {42, 35}

C31_CheckNumbersIsItsDefinition ==
    vop.op = "checkNumbers" =>
        \E a \in {vop.arg[1]}, b \in {vop.arg[2]} :
            /\ vop.ok <=> (isNumber(a) /\ isNumber(b) /\ a # b)
            /\ isNumber(a) <=> IsNumberByDefinition(a)
            /\ isNumber(b) <=> IsNumberByDefinition(b)

\* checkNumbers has refused a number and a string that is that number
\* followed by a letter
C31_Witness ==
    /\ vop.op = "checkNumbers"
    /\ vop.arg = << <<49>>, <<49, 97>> >>
    /\ ~vop.ok
    /\ checkNumbers(<<49>>, <<49, 42>>)

(* C32: from any reachable state, a successful phfwdAdd(a, b) followed by  *)
(* the same call again leaves the forward and the reverse trie as the      *)
(* first call left them.                                                   *)
C32_AddTwiceIsAddOnce ==
    [][(last'.op = "Add" /\ last'.ret /\ ~crashed')
        => \A a \in Nums, b \in Nums :
              IsAdd(a, b)
              => \A ubEq \in (IF HasInvalid(reverseRoot') THEN BOOLEAN ELSE {FALSE}) :
                    LET r2 == phfwdAdd(root', reverseRoot', a, b, 0, ubEq)
                    IN  /\ r2.ret
                        /\ ~r2.crashed
                        /\ r2.root = root'
                        /\ r2.reverseRoot = reverseRoot']_vars

\* the numbers asked about: up to one symbol more than the longest source
FrameNums == StringsOver(Alphabet, 3) \ {<<>>}

(* C33: a successful phfwdAdd(a, b) leaves phfwdGet(x) as it was for every *)
(* number x that does not start with a, and leaves every rule with a       *)
(* source other than a in the forward trie with the target it had; it      *)
(* brings no rule with another source.  (A successful phfwdAdd(a, b)       *)
(* leaves the rule a -> b in the forward trie, so only the rules of the    *)
(* state reached are tried as the arguments of the step.)                  *)
C33_AddOnlyUnderItsPrefix ==
    [][(last'.op = "Add" /\ last'.ret /\ ~crashed')
        => \A a \in {S \in Nums : HasRule(root', S)} :
              \A b \in {TargetOf(root', a)} \cap Nums :
                  IsAdd(a, b)
                  => /\ \A x \in FrameNums :
                           ~IsPrefixOf(a, x) => phfwdGet(root', x) = phfwdGet(root, x)
                     /\ \A S \in Nums \ {a} :
                           /\ HasRule(root', S) <=> HasRule(root, S)
                           /\ HasRule(root, S)
                                  => TargetOf(root', S) = TargetOf(root, S)]_vars

\* the second of two successful phfwdAdd calls has put a rule beside the
\* rule of the first one; one of the two sources has two symbols
C33_Witness ==
    /\ ~crashed
    /\ nOps = 2
    /\ last.op = "Add" /\ last.ret /\ last.changed
    /\ Cardinality({S \in Nums : HasRule(root, S)}) = 2
    /\ \E S \in Nums : Len(S) = 2 /\ HasRule(root, S)

(* C34: removeDuplicates on a vector of size 0 reads no element and leaves *)
(* the vector empty: the loop bound size - 1 does not wrap.                *)
C34_DedupOfEmptyIsSafe ==
    [][vop'.op = "RemoveDuplicates" /\ vec.size = 0 =>
          /\ ~crashed'
          /\ vec' = vec]_vars

====
